---- MODULE Spec2Model ----
(***************************************************************************)
(* PoliCard (src/app.py): the moderation workflow over Usuario, Banco,     *)
(* Tarjeta and Solicitud.  Every route handler that reads or writes these  *)
(* tables is one action; the database tables are functions from primary    *)
(* key to row.  Columns that no handler ever reads back (nombre, cat,      *)
(* anualidad, beneficios, imagen_url, fecha_aprobacion, ...) are left out  *)
(* of the rows.                                                            *)
(***************************************************************************)
EXTENDS Integers, Sequences, FiniteSets, TLC

VARIABLES
    usuarios,     \* table usuario:   id -> [email, password, tipo, activo]
    bancos,       \* table banco:     id -> [usuario_id, aprobado]
    tarjetas,     \* table tarjeta:   id -> [banco_id, tipo, edad_minima, aprobada,
                  \*                         fecha_creacion]
    solicitudes,  \* table solicitud: id -> [banco_id, tipo_solicitud, referencia_id, estado,
                  \*                         comentario_admin, fecha_solicitud, fecha_respuesta]
    reloj,        \* datetime.utcnow()
    registros,    \* registro_banco calls between their email lookup and their first
                  \* flush: worker -> the email posted (Libre when the worker is idle)
    ultima        \* the last request served and its response

\* Flask keeps the session in a signed cookie on the client, so the server holds
\* no session state: every handler takes uid, the session['user_id'] of the
\* cookie that comes with the request (NoSession when the cookie has none).

vars == <<usuarios, bancos, tarjetas, solicitudes, reloj, registros, ultima>>

db == <<usuarios, bancos, tarjetas, solicitudes>>

----------------------------------------------------------------------------
(* Bounds *)

MaxBancos == 2          \* registrations accepted
MaxTarjetaId == 2       \* largest primary key handed to a Tarjeta
MaxSolicitudes == 3     \* rows of solicitud
MaxReloj == 1           \* the clock runs over 0..MaxReloj
MaxEnVuelo == 2         \* workers that serve registro_banco at the same time
MaxLargoComentario == 3 \* chunks of a comment posted with a reject

(* Program constants *)

EdadMin == 18
EdadMax == 100
AdminId == 1

NoSession == 0
Nulo == -1              \* SQL NULL in a DateTime / Integer column
NuloTexto == <<"NULL">>  \* SQL NULL in a Text column
Libre == <<>>           \* a worker that serves no registration

Procesos == 1..MaxEnVuelo

TiposTarjeta == {"estudiante", "joven", "clasica"}

AdminEmail == <<"admin@policard.com">>
AdminPassword == "AdminPoliCard2025!"

----------------------------------------------------------------------------
(* Helpers *)

Max(S) == CHOOSE x \in S : \A y \in S : y <= x

\* The primary key the store hands to a new row: SQLite's INTEGER PRIMARY KEY
\* without AUTOINCREMENT, one more than the largest key in the table.
NuevoId(tabla) == IF DOMAIN tabla = {} THEN 1 ELSE Max(DOMAIN tabla) + 1

Insertar(tabla, id, fila) == [k \in DOMAIN tabla \cup {id} |-> IF k = id THEN fila ELSE tabla[k]]

Borrar(tabla, id) == [k \in DOMAIN tabla \ {id} |-> tabla[k]]

\* werkzeug's generate_password_hash / check_password_hash: a one-way tag.
generate_password_hash(p) == <<"hash", p>>

check_password_hash(h, p) == h = <<"hash", p>>

----------------------------------------------------------------------------
(* sanitizar_input: re.sub(r'<script.*?>.*?</script>', '', texto, IGNORECASE) *)
(* over texts that are sequences of chunks "<scr" "ipt" ">" "</script>" "x"   *)
(* "\n" (and upper-case variants); "<scr" followed by "ipt" spells "<script". *)

Lower(c) == CASE c = "<SCR" -> "<scr"
              [] c = "IPT" -> "ipt"
              [] c = "</SCRIPT>" -> "</script>"
              [] OTHER -> c

\* chunks whose last character is '>'
CierraTag(c) == Lower(c) \in {">", "</script>"}

SinSalto(s, a, b) == \A n \in a..b : s[n] # "\n"

\* index of the last chunk of the match that starts at i, 0 when none starts there
FinCoincidencia(s, i) ==
    IF i + 1 > Len(s) \/ Lower(s[i]) # "<scr" \/ Lower(s[i+1]) # "ipt" THEN 0
    ELSE LET js == {j \in (i+2)..Len(s) : CierraTag(s[j]) /\ SinSalto(s, i+2, j-1)}
         IN IF js = {} THEN 0
            ELSE LET j == CHOOSE x \in js : \A y \in js : x <= y
                     ks == {k \in (j+1)..Len(s) :
                               Lower(s[k]) = "</script>" /\ SinSalto(s, i+2, k-1)}
                 IN IF ks = {} THEN 0
                    ELSE CHOOSE x \in ks : \A y \in ks : x <= y

RECURSIVE Sustituir(_, _)
Sustituir(s, i) ==
    IF i > Len(s) THEN <<>>
    ELSE LET f == FinCoincidencia(s, i)
         IN IF f # 0 THEN Sustituir(s, f + 1)
            ELSE <<s[i]>> \o Sustituir(s, i + 1)

sanitizar_input(texto) == IF texto # <<>> THEN Sustituir(texto, 1) ELSE texto

----------------------------------------------------------------------------
(* Responses *)

Resp(op, id, res) ==
    [op |-> op, id |-> id, res |-> res,
     previa |-> FALSE, edad |-> 0, tipo |-> "", resultados |-> {}, lista |-> <<>>]

----------------------------------------------------------------------------
(* State after init_db() *)

Init ==
    /\ usuarios = [k \in {AdminId} |->
                     [email |-> AdminEmail,
                      password |-> generate_password_hash(AdminPassword),
                      tipo |-> "admin", activo |-> TRUE]]
    /\ bancos = << >>
    /\ tarjetas = << >>
    /\ solicitudes = << >>
    /\ reloj = 0
    /\ registros = [p \in Procesos |-> Libre]
    /\ ultima = Resp("init", 0, "ok")

----------------------------------------------------------------------------
(* Decorators *)

\* usuario.banco: the Banco row whose usuario_id is uid (uselist=False)
BancosDe(uid) == {b \in DOMAIN bancos : bancos[b].usuario_id = uid}

BancoDe(uid) == CHOOSE b \in BancosDe(uid) : TRUE

admin_requiredSinRol(uid) == IF uid = NoSession THEN "login" ELSE "ok"

admin_required(uid) ==
    IF uid = NoSession THEN "login"
    ELSE IF uid \notin DOMAIN usuarios \/ usuarios[uid].tipo # "admin" THEN "forbidden"
    ELSE "ok"

banco_required(uid) ==
    IF uid = NoSession THEN "login"
    ELSE IF uid \notin DOMAIN usuarios \/ usuarios[uid].tipo # "banco" THEN "forbidden"
    ELSE IF BancosDe(uid) = {} THEN "logout"
    ELSE "ok"

----------------------------------------------------------------------------
(* Form validation *)

\* TarjetaForm: tipo DataRequired over the choices, edad_minima NumberRange(18, 100)
TarjetaFormValida(tipo, edad) ==
    /\ tipo # "" /\ tipo \in TiposTarjeta
    /\ edad >= EdadMin /\ edad <= EdadMax

\* BusquedaForm: edad NumberRange(18, 100), tipo DataRequired over the choices
BusquedaFormValida(edad, tipo) ==
    /\ edad >= EdadMin /\ edad <= EdadMax
    /\ tipo # "" /\ tipo \in TiposTarjeta

----------------------------------------------------------------------------
(* Rows *)

NuevoUsuario(email, password) ==
    [email |-> sanitizar_input(email), password |-> generate_password_hash(password),
     tipo |-> "banco", activo |-> TRUE]

NuevoBancoAprobado(uid) == [usuario_id |-> uid, aprobado |-> TRUE]

\* Banco(...) in registro_banco; aprobado takes the column default
NuevoBanco(uid) == [usuario_id |-> uid, aprobado |-> FALSE]

NuevaTarjetaFilaAprobada(bid, tipo, edad) ==
    [banco_id |-> bid, tipo |-> tipo, edad_minima |-> edad, aprobada |-> TRUE,
     fecha_creacion |-> reloj]

\* Tarjeta(...) in banco_nueva_tarjeta; aprobada takes the column default
NuevaTarjetaFila(bid, tipo, edad) ==
    [banco_id |-> bid, tipo |-> tipo, edad_minima |-> edad, aprobada |-> FALSE,
     fecha_creacion |-> reloj]

NuevaSolicitud(bid, tipo_solicitud, ref) ==
    [banco_id |-> bid, tipo_solicitud |-> tipo_solicitud, referencia_id |-> ref,
     estado |-> "pendiente", comentario_admin |-> NuloTexto,
     fecha_solicitud |-> reloj, fecha_respuesta |-> Nulo]

----------------------------------------------------------------------------
(* Authentication *)

UsuariosConEmailNinguno(email) == {}

\* Usuario.query.filter_by(email=...)
UsuariosConEmail(email) == {u \in DOMAIN usuarios : usuarios[u].email = email}

\* login: on success the response carries the cookie with user_id = usuario.id
Login(uid, email, password) ==
    /\ UNCHANGED <<db, reloj, registros>>
    /\ IF uid # NoSession /\ uid \in DOMAIN usuarios
       THEN ultima' = Resp("login", 0, "dashboard")
       ELSE LET us == UsuariosConEmail(email)
            IN IF us # {} /\ check_password_hash(usuarios[Max(us)].password, password)
               THEN IF ~usuarios[Max(us)].activo
                    THEN ultima' = Resp("login", 0, "desactivada")
                    ELSE ultima' = Resp("login", Max(us), "ok")
               ELSE ultima' = Resp("login", 0, "credenciales")

UsuariosSinRollback(uid, email, password) ==
    Insertar(usuarios, uid, NuevoUsuario(email, password))

\* registro_banco, the except branch: db.session.rollback() undoes the flushed rows
UsuariosTrasRollback(uid, email, password) == usuarios

EmailUnicoSinRestriccion(email) == TRUE

\* Usuario.email is unique=True: the store accepts the INSERT of the (sanitized)
\* email only when no row has it
EmailUnico(email) == UsuariosConEmail(sanitizar_input(email)) = {}

\* registro_banco from the first flush to the commit; the store may raise at a
\* flush or at the commit, and then the handler rolls back
RegistroEscribe(email, password) ==
    LET uid == NuevoId(usuarios)
        bid == NuevoId(bancos)
        sid == NuevoId(solicitudes)
    IN \/ /\ ultima' = Resp("registro", 0, "error")
          /\ usuarios' = UsuariosTrasRollback(uid, email, password)
          /\ UNCHANGED <<bancos, solicitudes>>
       \/ /\ EmailUnico(email)
          /\ usuarios' = Insertar(usuarios, uid, NuevoUsuario(email, password))
          /\ bancos' = Insertar(bancos, bid, NuevoBanco(uid))
          /\ solicitudes' = Insertar(solicitudes, sid, NuevaSolicitud(bid, "banco", bid))
          /\ ultima' = Resp("registro", bid, "ok")

\* registro_banco served by one worker with no other registration in between
RegistroBanco(email, password) ==
    /\ UNCHANGED <<tarjetas, reloj, registros>>
    /\ IF UsuariosConEmail(email) # {}
       THEN /\ ultima' = Resp("registro", 0, "duplicado")
            /\ UNCHANGED <<usuarios, bancos, solicitudes>>
       ELSE RegistroEscribe(email, password)

\* registro_banco on worker p up to the email lookup: a hit answers at once, a
\* miss leaves the call on its way to the first flush
RegistroVerifica(p, email) ==
    /\ registros[p] = Libre
    /\ UNCHANGED <<db, reloj>>
    /\ IF UsuariosConEmail(email) # {}
       THEN /\ ultima' = Resp("registro", 0, "duplicado")
            /\ UNCHANGED registros
       ELSE /\ registros' = [registros EXCEPT ![p] = email]
            /\ UNCHANGED ultima

\* the rest of the call on worker p: the writes and the commit, or the rollback
RegistroConfirma(p, password) ==
    /\ registros[p] # Libre
    /\ registros' = [registros EXCEPT ![p] = Libre]
    /\ UNCHANGED <<tarjetas, reloj>>
    /\ RegistroEscribe(registros[p], password)

----------------------------------------------------------------------------
(* Institution panel *)

TarjetaPropiaCualquiera(id, bid) == id \in DOMAIN tarjetas

\* Tarjeta.query.filter_by(id=id, banco_id=banco.id).first()
TarjetaPropia(id, bid) == id \in DOMAIN tarjetas /\ tarjetas[id].banco_id = bid

PuedeCrearSiempre(bid) == TRUE

\* banco_nueva_tarjeta, the check on banco.aprobado
PuedeCrear(bid) == bancos[bid].aprobado

\* banco_nueva_tarjeta
BancoNuevaTarjeta(uid, tipo, edad) ==
    /\ UNCHANGED <<usuarios, bancos, reloj, registros>>
    /\ IF banco_required(uid) # "ok"
       THEN /\ ultima' = Resp("nueva", 0, banco_required(uid))
            /\ UNCHANGED <<tarjetas, solicitudes>>
       ELSE LET bid == BancoDe(uid)
                tid == NuevoId(tarjetas)
                sid == NuevoId(solicitudes)
            IN IF ~PuedeCrear(bid)
               THEN /\ ultima' = Resp("nueva", 0, "no_aprobado")
                    /\ UNCHANGED <<tarjetas, solicitudes>>
               ELSE IF ~TarjetaFormValida(tipo, edad)
               THEN /\ ultima' = Resp("nueva", 0, "form")
                    /\ UNCHANGED <<tarjetas, solicitudes>>
               ELSE \/ /\ ultima' = Resp("nueva", 0, "error")
                       /\ UNCHANGED <<tarjetas, solicitudes>>
                    \/ /\ tarjetas' = Insertar(tarjetas, tid, NuevaTarjetaFila(bid, tipo, edad))
                       /\ solicitudes' = Insertar(solicitudes, sid, NuevaSolicitud(bid, "tarjeta", tid))
                       /\ ultima' = Resp("nueva", tid, "ok")

TarjetaEditadaSinReset(t, tipo, edad) ==
    [t EXCEPT !.tipo = tipo, !.edad_minima = edad]

\* the assignments of banco_editar_tarjeta to the row
TarjetaEditada(t, tipo, edad) ==
    [t EXCEPT !.tipo = tipo, !.edad_minima = edad, !.aprobada = FALSE]

SolicitudesTrasEditarReusa(bid, id) ==
    IF \E k \in DOMAIN solicitudes : /\ solicitudes[k].tipo_solicitud = "tarjeta"
                                     /\ solicitudes[k].referencia_id = id
                                     /\ solicitudes[k].estado = "pendiente"
    THEN solicitudes
    ELSE Insertar(solicitudes, NuevoId(solicitudes), NuevaSolicitud(bid, "tarjeta", id))

\* banco_editar_tarjeta, "Crear nueva solicitud": always a new row
SolicitudesTrasEditar(bid, id) ==
    Insertar(solicitudes, NuevoId(solicitudes), NuevaSolicitud(bid, "tarjeta", id))

\* banco_editar_tarjeta
BancoEditarTarjeta(uid, id, tipo, edad) ==
    /\ UNCHANGED <<usuarios, bancos, reloj, registros>>
    /\ IF banco_required(uid) # "ok"
       THEN /\ ultima' = Resp("editar", 0, banco_required(uid))
            /\ UNCHANGED <<tarjetas, solicitudes>>
       ELSE LET bid == BancoDe(uid)
            IN IF ~TarjetaPropia(id, bid)
               THEN \* first_or_404 raises inside the try: caught, rollback
                    /\ ultima' = Resp("editar", 0, "error")
                    /\ UNCHANGED <<tarjetas, solicitudes>>
               ELSE IF ~TarjetaFormValida(tipo, edad)
               THEN /\ ultima' = Resp("editar", 0, "form")
                    /\ UNCHANGED <<tarjetas, solicitudes>>
               ELSE \/ /\ ultima' = Resp("editar", 0, "error")
                       /\ UNCHANGED <<tarjetas, solicitudes>>
                    \/ /\ tarjetas' = [tarjetas EXCEPT ![id] = TarjetaEditada(@, tipo, edad)]
                       /\ solicitudes' = SolicitudesTrasEditar(bid, id)
                       /\ ultima' = [Resp("editar", id, "ok") EXCEPT !.previa = tarjetas[id].aprobada]

\* banco_eliminar_tarjeta
BancoEliminarTarjeta(uid, id) ==
    /\ UNCHANGED <<usuarios, bancos, solicitudes, reloj, registros>>
    /\ IF banco_required(uid) # "ok"
       THEN /\ ultima' = Resp("eliminar", 0, banco_required(uid))
            /\ UNCHANGED tarjetas
       ELSE IF ~TarjetaPropia(id, BancoDe(uid))
       THEN /\ ultima' = Resp("eliminar", 0, "error")
            /\ UNCHANGED tarjetas
       ELSE \/ /\ ultima' = Resp("eliminar", 0, "error")
               /\ UNCHANGED tarjetas
            \/ /\ tarjetas' = Borrar(tarjetas, id)
               /\ ultima' = Resp("eliminar", id, "ok")

----------------------------------------------------------------------------
(* Administrator panel *)

\* the assignments of aprobar_solicitud to the Solicitud row
SolicitudAprobada(s) == [s EXCEPT !.estado = "aprobada", !.fecha_respuesta = reloj]

\* the assignments of rechazar_solicitud to the Solicitud row
SolicitudRechazada(s, comentario) ==
    [s EXCEPT !.estado = "rechazada", !.fecha_respuesta = reloj,
              !.comentario_admin = sanitizar_input(comentario)]

SolicitudesTrasRechazarTodas(id, comentario) ==
    [k \in DOMAIN solicitudes |->
        IF /\ solicitudes[k].tipo_solicitud = solicitudes[id].tipo_solicitud
           /\ solicitudes[k].referencia_id = solicitudes[id].referencia_id
        THEN SolicitudRechazada(solicitudes[k], comentario)
        ELSE solicitudes[k]]

\* rechazar_solicitud, the table after the assignments to solicitud id
SolicitudesTrasRechazar(id, comentario) ==
    [solicitudes EXCEPT ![id] = SolicitudRechazada(@, comentario)]

\* aprobar_solicitud, the branch on tipo_solicitud == 'banco'
BancosTrasAprobar(s) ==
    IF s.tipo_solicitud = "banco" /\ s.referencia_id \in DOMAIN bancos
    THEN [bancos EXCEPT ![s.referencia_id] = [@ EXCEPT !.aprobado = TRUE]]
    ELSE bancos

TarjetasTrasAprobarTodas(s) ==
    IF s.tipo_solicitud = "tarjeta" /\ s.referencia_id \in DOMAIN tarjetas
    THEN [t \in DOMAIN tarjetas |->
            IF tarjetas[t].banco_id = s.banco_id
            THEN [tarjetas[t] EXCEPT !.aprobada = TRUE] ELSE tarjetas[t]]
    ELSE tarjetas

\* aprobar_solicitud, the branch on tipo_solicitud == 'tarjeta'
TarjetasTrasAprobar(s) ==
    IF s.tipo_solicitud = "tarjeta" /\ s.referencia_id \in DOMAIN tarjetas
    THEN [tarjetas EXCEPT ![s.referencia_id] = [@ EXCEPT !.aprobada = TRUE]]
    ELSE tarjetas

SolicitudesSinRollback(id) == [solicitudes EXCEPT ![id] = SolicitudAprobada(@)]

\* aprobar_solicitud, the except branch: db.session.rollback() undoes the
\* assignments made before the commit raised
SolicitudesTrasRollback(id) == solicitudes

FiltroPendientesTodas == DOMAIN solicitudes

\* Solicitud.query.filter_by(estado='pendiente')
FiltroPendientes == {k \in DOMAIN solicitudes : solicitudes[k].estado = "pendiente"}

\* .order_by(Solicitud.fecha_solicitud.desc()).all(): the rows of S in an order
\* the store may return, which among rows of equal fecha_solicitud is any order
Ordenadas(S) ==
    {q \in [1..Cardinality(S) -> S] :
        /\ \A a, b \in 1..Cardinality(S) : a # b => q[a] # q[b]
        /\ \A a, b \in 1..Cardinality(S) :
              a < b => solicitudes[q[a]].fecha_solicitud >= solicitudes[q[b]].fecha_solicitud}

\* admin_solicitudes
AdminSolicitudes(uid) ==
    /\ UNCHANGED <<db, reloj, registros>>
    /\ IF admin_required(uid) # "ok"
       THEN ultima' = Resp("solicitudes", 0, admin_required(uid))
       ELSE \E q \in Ordenadas(FiltroPendientes) :
               ultima' = [Resp("solicitudes", 0, "ok") EXCEPT !.lista = q]

\* aprobar_solicitud
AprobarSolicitud(uid, id) ==
    /\ UNCHANGED <<usuarios, reloj, registros>>
    /\ IF admin_required(uid) # "ok"
       THEN /\ ultima' = Resp("aprobar", 0, admin_required(uid))
            /\ UNCHANGED <<bancos, tarjetas, solicitudes>>
       ELSE IF id \notin DOMAIN solicitudes
       THEN \* get_or_404 raises inside the try: caught, rollback
            /\ ultima' = Resp("aprobar", 0, "error")
            /\ UNCHANGED <<bancos, tarjetas, solicitudes>>
       ELSE \/ /\ ultima' = Resp("aprobar", 0, "error")
               /\ solicitudes' = SolicitudesTrasRollback(id)
               /\ UNCHANGED <<bancos, tarjetas>>
            \/ /\ solicitudes' = [solicitudes EXCEPT ![id] = SolicitudAprobada(@)]
               /\ bancos' = BancosTrasAprobar(solicitudes[id])
               /\ tarjetas' = TarjetasTrasAprobar(solicitudes[id])
               /\ ultima' = [Resp("aprobar", id, "ok") EXCEPT
                                !.previa = (solicitudes[id].estado = "pendiente")]

BancosTrasRechazarRevoca(s) ==
    IF s.tipo_solicitud = "banco" /\ s.referencia_id \in DOMAIN bancos
    THEN [bancos EXCEPT ![s.referencia_id] = [@ EXCEPT !.aprobado = FALSE]]
    ELSE bancos

\* rechazar_solicitud assigns to the Solicitud only: the Banco rows stay
BancosTrasRechazar(s) == bancos

\* rechazar_solicitud
RechazarSolicitud(uid, id, comentario) ==
    /\ UNCHANGED <<usuarios, tarjetas, reloj, registros>>
    /\ IF admin_required(uid) # "ok"
       THEN /\ ultima' = Resp("rechazar", 0, admin_required(uid))
            /\ UNCHANGED <<bancos, solicitudes>>
       ELSE IF id \notin DOMAIN solicitudes
       THEN /\ ultima' = Resp("rechazar", 0, "error")
            /\ UNCHANGED <<bancos, solicitudes>>
       ELSE \/ /\ ultima' = Resp("rechazar", 0, "error")
               /\ UNCHANGED <<bancos, solicitudes>>
            \/ /\ solicitudes' = SolicitudesTrasRechazar(id, comentario)
               /\ bancos' = BancosTrasRechazar(solicitudes[id])
               /\ ultima' = [Resp("rechazar", id, "ok") EXCEPT
                                !.previa = (solicitudes[id].estado = "pendiente")]

----------------------------------------------------------------------------
(* Deleting a Banco through the session, as the mapped classes define it *)

\* Solicitud.banco = relationship('Banco', backref='solicitudes'): the rows that
\* banco.solicitudes holds
SolicitudesDelBanco(bid) == {k \in DOMAIN solicitudes : solicitudes[k].banco_id = bid}

\* Banco.tarjetas = relationship('Tarjeta', cascade='all, delete-orphan')
TarjetasSinBanco(bid) ==
    [t \in {x \in DOMAIN tarjetas : tarjetas[x].banco_id # bid} |-> tarjetas[t]]

\* db.session.delete(banco); db.session.commit().  The tarjetas relationship
\* cascades the delete.  The solicitudes backref has no delete cascade, so the
\* flush sets banco_id of every row of banco.solicitudes to NULL, and the column
\* is nullable=False: the store refuses and the transaction is rolled back.
EliminarBanco(bid) ==
    /\ bid \in DOMAIN bancos
    /\ UNCHANGED <<usuarios, solicitudes, reloj, registros>>
    /\ IF SolicitudesDelBanco(bid) # {}
       THEN /\ ultima' = Resp("eliminar_banco", 0, "error")
            /\ UNCHANGED <<bancos, tarjetas>>
       ELSE /\ bancos' = Borrar(bancos, bid)
            /\ tarjetas' = TarjetasSinBanco(bid)
            /\ ultima' = Resp("eliminar_banco", bid, "ok")

----------------------------------------------------------------------------
(* Public catalog *)

FiltroBuscarSinAprobada(edad, tipo) ==
    {t \in DOMAIN tarjetas : /\ tarjetas[t].edad_minima <= edad
                             /\ tarjetas[t].tipo = tipo}

\* Tarjeta.query.filter(edad_minima <= edad, tipo == tipo, aprobada == True).all()
FiltroBuscar(edad, tipo) ==
    {t \in DOMAIN tarjetas : /\ tarjetas[t].edad_minima <= edad
                             /\ tarjetas[t].tipo = tipo
                             /\ tarjetas[t].aprobada = TRUE}

\* Tarjeta.query.filter_by(aprobada=True).all()
FiltroTarjetas == {t \in DOMAIN tarjetas : tarjetas[t].aprobada = TRUE}

\* buscar
Buscar(edad, tipo) ==
    /\ UNCHANGED <<db, reloj, registros>>
    /\ ultima' = [Resp("buscar", 0, IF BusquedaFormValida(edad, tipo) THEN "ok" ELSE "form")
                    EXCEPT !.edad = edad, !.tipo = tipo,
                           !.resultados = IF BusquedaFormValida(edad, tipo)
                                          THEN FiltroBuscar(edad, tipo) ELSE {}]

\* tarjetas
Tarjetas ==
    /\ UNCHANGED <<db, reloj, registros>>
    /\ ultima' = [Resp("tarjetas", 0, "ok") EXCEPT !.resultados = FiltroTarjetas]

----------------------------------------------------------------------------
(* Time *)

Tic ==
    /\ reloj' = reloj + 1
    /\ UNCHANGED <<db, registros, ultima>>

----------------------------------------------------------------------------
(* Requests: the cookies and form values that arrive, within the bounds *)

Cookies == {NoSession} \cup DOMAIN usuarios
IdsTarjeta == 1..(MaxTarjetaId + 1)
IdsSolicitud == 1..MaxSolicitudes

\* (email, password) posted with LoginForm
LoginEntradas == {<<AdminEmail, AdminPassword>>, <<AdminEmail, "secreto">>,
                  <<(<<"a@banco.mx">>), "secreto">>}

\* emails posted with RegistroBancoForm: the n-th institution comes with the n-th
\* address (addresses are only ever compared), bare or behind a script element,
\* or with the administrator's
Direcciones == <<"a@banco.mx", "b@banco.mx", "c@banco.mx", "d@banco.mx", "e@banco.mx">>
EmailNuevo == <<Direcciones[Cardinality(DOMAIN bancos) + 1]>>
ConScript(email) == <<"<scr", "ipt", ">", "</script>">> \o email
Emails == {EmailNuevo, ConScript(EmailNuevo), AdminEmail, ConScript(AdminEmail)}

\* (tipo, edad_minima) posted with TarjetaForm
TarjetaEntradas == {<<"joven", 18>>, <<"joven", 21>>, <<"", 17>>}

\* (edad, tipo) posted with BusquedaForm
BusquedaEntradas == {<<20, "joven">>, <<21, "joven">>, <<21, "clasica">>, <<17, "joven">>}

\* comentario posted with the reject
Comentarios == { <<"<SCR", "ipt", ">", "x", "</script>", "x">> }

HayFilaLibre == Cardinality(DOMAIN solicitudes) < MaxSolicitudes

\* an edit that gets past the gate and finds the card may add a row of solicitud
EditarCabe(u, i) ==
    (banco_required(u) = "ok" /\ TarjetaPropia(i, BancoDe(u))) => HayFilaLibre

Next ==
    \/ \E u \in {NoSession, AdminId}, x \in LoginEntradas : Login(u, x[1], x[2])
    \/ \E e \in Emails :
          /\ Cardinality(DOMAIN bancos) < MaxBancos /\ HayFilaLibre
          /\ RegistroBanco(e, "secreto")
    \/ \E u \in Cookies, x \in TarjetaEntradas :
          /\ NuevoId(tarjetas) <= MaxTarjetaId /\ HayFilaLibre
          /\ BancoNuevaTarjeta(u, x[1], x[2])
    \/ \E u \in Cookies, i \in IdsTarjeta, x \in TarjetaEntradas :
          /\ EditarCabe(u, i)
          /\ BancoEditarTarjeta(u, i, x[1], x[2])
    \/ \E u \in Cookies, i \in IdsTarjeta : BancoEliminarTarjeta(u, i)
    \/ \E u \in Cookies, i \in IdsSolicitud : AprobarSolicitud(u, i)
    \/ \E u \in Cookies, i \in IdsSolicitud, c \in Comentarios : RechazarSolicitud(u, i, c)
    \/ \E x \in BusquedaEntradas : Buscar(x[1], x[2])
    \/ Tarjetas
    \/ reloj < MaxReloj /\ Tic

Spec == Init /\ [][Next]_vars

----------------------------------------------------------------------------
(* The workflow alone: every request comes with the cookie of a user of the  *)
(* role its route asks for and with a form that validates, and the clock     *)
(* stands still.                                                             *)

Bancarios == {u \in DOMAIN usuarios : usuarios[u].tipo = "banco"}
Admins == {u \in DOMAIN usuarios : usuarios[u].tipo = "admin"}

TarjetaValidas == {x \in TarjetaEntradas : TarjetaFormValida(x[1], x[2])}

NextFlujo ==
    \/ \E e \in {EmailNuevo, AdminEmail} :
          /\ Cardinality(DOMAIN bancos) < MaxBancos /\ HayFilaLibre
          /\ RegistroBanco(e, "secreto")
    \/ \E u \in Bancarios, x \in TarjetaValidas :
          /\ NuevoId(tarjetas) <= MaxTarjetaId /\ HayFilaLibre
          /\ BancoNuevaTarjeta(u, x[1], x[2])
    \/ \E u \in Bancarios, i \in IdsTarjeta, x \in TarjetaValidas :
          /\ HayFilaLibre
          /\ BancoEditarTarjeta(u, i, x[1], x[2])
    \/ \E u \in Bancarios, i \in IdsTarjeta : BancoEliminarTarjeta(u, i)
    \/ \E u \in Admins, i \in IdsSolicitud : AprobarSolicitud(u, i)
    \/ \E u \in Admins, i \in IdsSolicitud, c \in Comentarios : RechazarSolicitud(u, i, c)

SpecFlujo == Init /\ [][NextFlujo]_vars

(* The workflow and the public queries over it *)

NextCatalogo ==
    \/ NextFlujo
    \/ \E x \in BusquedaEntradas : Buscar(x[1], x[2])
    \/ Tarjetas

SpecCatalogo == Init /\ [][NextCatalogo]_vars

(* The workflow under a running clock, and the administrator's listing       *)

NextTiempo ==
    \/ NextFlujo
    \/ reloj < MaxReloj /\ Tic
    \/ \E u \in Admins : AdminSolicitudes(u)

SpecTiempo == Init /\ [][NextTiempo]_vars

(* The workflow and the deletion of an institution *)

NextCascada ==
    \/ NextFlujo
    \/ \E b \in DOMAIN bancos : EliminarBanco(b)

SpecCascada == Init /\ [][NextCascada]_vars

(* Registrations served by several workers at once *)

NextConcurrente ==
    \/ \E p \in Procesos, e \in Emails : RegistroVerifica(p, e)
    \/ \E p \in Procesos :
          /\ Cardinality(DOMAIN bancos) < MaxBancos /\ HayFilaLibre
          /\ RegistroConfirma(p, "secreto")
    \/ \E e \in Emails :
          /\ Cardinality(DOMAIN bancos) < MaxBancos /\ HayFilaLibre
          /\ RegistroBanco(e, "secreto")

SpecConcurrente == Init /\ [][NextConcurrente]_vars

(* One registration and its rejection with any comment of up to             *)
(* MaxLargoComentario chunks, with a script element nested in the tag text   *)
(* of another, or with a script body of several lines                        *)

Trozos == {"<scr", "ipt", ">", "</script>", "x", "\n"}

ComentarioAnidado ==
    <<"<scr", "<scr", "ipt", ">", "</script>", "ipt", ">", "x", "</script>">>

ComentarioVariasLineas == <<"<scr", "ipt", ">", "x", "\n", "x", "</script>">>

ComentariosPosibles ==
    {ComentarioAnidado, ComentarioVariasLineas} \cup UNION {[1..n -> Trozos] : n \in 0..MaxLargoComentario}

NextComentarios ==
    \/ /\ DOMAIN bancos = {}
       /\ RegistroBanco(EmailNuevo, "secreto")
    \/ \E i \in DOMAIN solicitudes, c \in ComentariosPosibles :
          RechazarSolicitud(AdminId, i, c)

SpecComentarios == Init /\ [][NextComentarios]_vars

(* The workflow with every cookie at every route: no session, the            *)
(* administrator's, an institution's                                         *)

NextPuertas ==
    \/ /\ Cardinality(DOMAIN bancos) < MaxBancos /\ HayFilaLibre
       /\ RegistroBanco(EmailNuevo, "secreto")
    \/ \E u \in Cookies, x \in TarjetaValidas :
          /\ NuevoId(tarjetas) <= MaxTarjetaId /\ HayFilaLibre
          /\ BancoNuevaTarjeta(u, x[1], x[2])
    \/ \E u \in Cookies, i \in IdsTarjeta, x \in TarjetaValidas :
          /\ EditarCabe(u, i)
          /\ BancoEditarTarjeta(u, i, x[1], x[2])
    \/ \E u \in Cookies, i \in IdsTarjeta : BancoEliminarTarjeta(u, i)
    \/ \E u \in Cookies, i \in IdsSolicitud : AprobarSolicitud(u, i)
    \/ \E u \in Cookies, i \in IdsSolicitud, c \in Comentarios : RechazarSolicitud(u, i, c)

SpecPuertas == Init /\ [][NextPuertas]_vars

----------------------------------------------------------------------------
(* Properties *)

\* the card-requests and institution-requests that name a subject
SolicitudesDe(tipo_solicitud, ref) ==
    {k \in DOMAIN solicitudes : /\ solicitudes[k].tipo_solicitud = tipo_solicitud
                                /\ solicitudes[k].referencia_id = ref}

\* the most recently submitted of a non-empty set of requests: keys are handed
\* out in submission order and the clock never runs backwards
MasReciente(S) == Max(S)

UltimaAprobada(tipo_solicitud, ref) ==
    LET S == SolicitudesDe(tipo_solicitud, ref)
    IN /\ S # {}
       /\ solicitudes[MasReciente(S)].estado = "aprobada"
       /\ \A k \in S : k > MasReciente(S) => solicitudes[k].estado # "pendiente"

\* C1: in every reachable state a Card is approved if and only if the most
\* recently submitted card-request that names it is approved and no newer
\* card-request for it is pending.
C1_TarjetaAprobadaSiiUltimaSolicitud ==
    \A t \in DOMAIN tarjetas : tarjetas[t].aprobada <=> UltimaAprobada("tarjeta", t)

\* C2: in every reachable state every approved Card has a card-request that
\* names it, is approved, and was answered no earlier than it was submitted.
C2_TarjetaAprobadaTieneSolicitud ==
    \A t \in DOMAIN tarjetas :
        tarjetas[t].aprobada =>
            \E k \in SolicitudesDe("tarjeta", t) :
                /\ solicitudes[k].estado = "aprobada"
                /\ solicitudes[k].fecha_respuesta >= solicitudes[k].fecha_solicitud

\* C3: resolution is terminal: no step changes the status of a Request that is
\* already approved or rejected, and an approve or reject applied to such a
\* Request leaves every table as it was.
C3_ResolucionTerminal ==
    [][/\ \A k \in DOMAIN solicitudes :
             solicitudes[k].estado # "pendiente" =>
                /\ k \in DOMAIN solicitudes'
                /\ solicitudes'[k].estado = solicitudes[k].estado
       /\ \A u \in Cookies, k \in DOMAIN solicitudes :
             (/\ solicitudes[k].estado # "pendiente"
              /\ \/ AprobarSolicitud(u, k)
                 \/ \E c \in Comentarios : RechazarSolicitud(u, k, c))
             => UNCHANGED db]_vars

\* C4: right after a successful edit the edited Card is not approved, whatever
\* it was before and whatever values the edit carried.
C4_EditarDesaprueba ==
    (ultima.op = "editar" /\ ultima.res = "ok") =>
        /\ ultima.id \in DOMAIN tarjetas
        /\ tarjetas[ultima.id].aprobada = FALSE

C4_Testigo ==
    /\ ultima.op = "editar" /\ ultima.res = "ok"
    /\ ultima.previa

\* C5: a submit_card by an institution that is not approved creates no Card and
\* no Request and changes no table.
C5_NoAprobadoNoCrea ==
    [][\A u \in Bancarios, x \in TarjetaEntradas :
          (/\ ultima'.op = "nueva"
           /\ BancosDe(u) # {}
           /\ ~bancos[BancoDe(u)].aprobado
           /\ BancoNuevaTarjeta(u, x[1], x[2]))
          => /\ UNCHANGED db
             /\ ultima'.res = "no_aprobado"]_vars

C5_Testigo ==
    /\ ultima.op = "nueva" /\ ultima.res = "no_aprobado"
    /\ \E b \in DOMAIN bancos : ~bancos[b].aprobado

\* C6: a successful submit_card adds exactly one Card (not approved, owned by
\* the caller's institution) and exactly one Request (card-request, pending,
\* naming the new Card, owned by the caller's institution) and changes no
\* existing Card, Institution, Identity or Request.
C6_NuevaTarjetaAgregaUna ==
    [][\A u \in Bancarios, x \in TarjetaEntradas :
          (ultima'.op = "nueva" /\ ultima'.res = "ok" /\ BancoNuevaTarjeta(u, x[1], x[2]))
          => LET tid == ultima'.id
                 nuevas == DOMAIN solicitudes' \ DOMAIN solicitudes
             IN /\ tid \notin DOMAIN tarjetas
                /\ DOMAIN tarjetas' = DOMAIN tarjetas \cup {tid}
                /\ tarjetas'[tid].aprobada = FALSE
                /\ tarjetas'[tid].banco_id \in BancosDe(u)
                /\ \A t \in DOMAIN tarjetas : tarjetas'[t] = tarjetas[t]
                /\ Cardinality(nuevas) = 1
                /\ DOMAIN solicitudes \subseteq DOMAIN solicitudes'
                /\ \A k \in nuevas :
                      /\ solicitudes'[k].tipo_solicitud = "tarjeta"
                      /\ solicitudes'[k].estado = "pendiente"
                      /\ solicitudes'[k].referencia_id = tid
                      /\ solicitudes'[k].banco_id \in BancosDe(u)
                /\ \A k \in DOMAIN solicitudes : solicitudes'[k] = solicitudes[k]
                /\ UNCHANGED <<usuarios, bancos>>]_vars

C6_Testigo ==
    /\ ultima.op = "nueva" /\ ultima.res = "ok"
    /\ Cardinality(DOMAIN tarjetas) = 2
    /\ Cardinality(DOMAIN bancos) = 1

\* C7: approving a pending Request makes that Request approved and sets the
\* approved flag of the Institution (institution-request) or Card (card-request)
\* it names, and of nothing else; no other Request changes.
C7_AprobarSoloElSujeto ==
    [][\A u \in Admins :
          (/\ ultima'.op = "aprobar" /\ ultima'.res = "ok"
           /\ ultima'.id \in DOMAIN solicitudes
           /\ solicitudes[ultima'.id].estado = "pendiente"
           /\ AprobarSolicitud(u, ultima'.id))
          => LET k == ultima'.id
                 s == solicitudes[k]
             IN /\ solicitudes'[k].estado = "aprobada"
                /\ DOMAIN solicitudes' = DOMAIN solicitudes
                /\ \A j \in DOMAIN solicitudes \ {k} : solicitudes'[j] = solicitudes[j]
                /\ DOMAIN bancos' = DOMAIN bancos /\ DOMAIN tarjetas' = DOMAIN tarjetas
                /\ \A b \in DOMAIN bancos :
                      IF s.tipo_solicitud = "banco" /\ s.referencia_id = b
                      THEN bancos'[b].aprobado = TRUE
                      ELSE bancos'[b].aprobado = bancos[b].aprobado
                /\ \A t \in DOMAIN tarjetas :
                      IF s.tipo_solicitud = "tarjeta" /\ s.referencia_id = t
                      THEN tarjetas'[t].aprobada = TRUE
                      ELSE tarjetas'[t].aprobada = tarjetas[t].aprobada]_vars

C7_Testigo ==
    /\ ultima.op = "aprobar" /\ ultima.res = "ok" /\ ultima.previa
    /\ solicitudes[ultima.id].tipo_solicitud = "tarjeta"
    /\ solicitudes[ultima.id].referencia_id \in DOMAIN tarjetas
    /\ \E t \in DOMAIN tarjetas :
          /\ t # solicitudes[ultima.id].referencia_id
          /\ tarjetas[t].banco_id = solicitudes[ultima.id].banco_id
          /\ ~tarjetas[t].aprobada

\* C8: rejecting a Request changes that Request's status, response time and
\* comment and nothing else: every approved flag and every other Request is as
\* it was.
C8_RechazarSoloLaSolicitud ==
    [][\A u \in Admins, c \in Comentarios :
          (/\ ultima'.op = "rechazar" /\ ultima'.res = "ok"
           /\ RechazarSolicitud(u, ultima'.id, c))
          => LET k == ultima'.id
             IN /\ UNCHANGED <<usuarios, bancos, tarjetas>>
                /\ DOMAIN solicitudes' = DOMAIN solicitudes
                /\ \A j \in DOMAIN solicitudes \ {k} : solicitudes'[j] = solicitudes[j]
                /\ solicitudes'[k].estado = "rechazada"
                /\ solicitudes'[k] = [solicitudes[k] EXCEPT
                                        !.estado = solicitudes'[k].estado,
                                        !.fecha_respuesta = solicitudes'[k].fecha_respuesta,
                                        !.comentario_admin = solicitudes'[k].comentario_admin]]_vars

C8_Testigo ==
    /\ ultima.op = "rechazar" /\ ultima.res = "ok"
    /\ solicitudes[ultima.id].tipo_solicitud = "tarjeta"
    /\ solicitudes[ultima.id].referencia_id \in DOMAIN tarjetas
    /\ tarjetas[solicitudes[ultima.id].referencia_id].aprobada
    /\ Cardinality(SolicitudesDe("tarjeta", solicitudes[ultima.id].referencia_id)) = 2

\* C9: in every reachable state an Institution is approved if and only if the
\* most recently submitted institution-request that names it is approved and no
\* newer institution-request for it is pending.
C9_BancoAprobadoSiiUltimaSolicitud ==
    \A b \in DOMAIN bancos : bancos[b].aprobado <=> UltimaAprobada("banco", b)

\* C10: for an age in [18, 100] and a category, search_cards returns exactly the
\* Cards that are approved, of that category, with minimum age at most the age;
\* it never returns a Card that is not approved.
C10_BuscarExacto ==
    (/\ ultima.op = "buscar"
     /\ ultima.edad >= 18 /\ ultima.edad <= 100
     /\ ultima.tipo \in {"estudiante", "joven", "clasica"})
    => /\ ultima.res = "ok"
       /\ \A t \in ultima.resultados :
             /\ t \in DOMAIN tarjetas
             /\ tarjetas[t].aprobada
             /\ tarjetas[t].tipo = ultima.tipo
             /\ tarjetas[t].edad_minima <= ultima.edad
       /\ \A t \in DOMAIN tarjetas :
             (/\ tarjetas[t].aprobada
              /\ tarjetas[t].tipo = ultima.tipo
              /\ tarjetas[t].edad_minima <= ultima.edad) => t \in ultima.resultados

C10_Testigo ==
    /\ ultima.op = "buscar" /\ ultima.res = "ok"
    /\ ultima.resultados # {}
    /\ \E t \in DOMAIN tarjetas \ ultima.resultados :
          /\ ~tarjetas[t].aprobada
          /\ tarjetas[t].tipo = ultima.tipo
          /\ tarjetas[t].edad_minima <= ultima.edad

\* C11: a registration with an email equal to the email of an existing Identity
\* fails as a duplicate and commits nothing: no Identity, Institution or Request
\* is added and no existing row changes.
C11_EmailDuplicadoNoRegistra ==
    [][\A e \in Emails :
          (/\ ultima'.op = "registro"
           /\ \E u \in DOMAIN usuarios : usuarios[u].email = e
           /\ RegistroBanco(e, "secreto"))
          => /\ UNCHANGED db
             /\ ultima'.res = "duplicado"]_vars

C11_Testigo ==
    /\ ultima.op = "registro" /\ ultima.res = "duplicado"
    /\ Cardinality(DOMAIN usuarios) = 2
    /\ Cardinality(DOMAIN bancos) = 1

\* every Identity with role institution owns exactly one Institution, and an
\* institution-request names that Institution
RegistroCompleto ==
    \A u \in DOMAIN usuarios :
        usuarios[u].tipo = "banco" =>
            /\ Cardinality(BancosDe(u)) = 1
            /\ \A b \in BancosDe(u) : SolicitudesDe("banco", b) # {}

\* C12: registration is atomic: in every reachable state, also after a
\* registration that failed part-way, every Identity with role institution owns
\* exactly one Institution that an institution-request names; and a successful
\* registration adds exactly one Identity (institution, active), one Institution
\* (not approved, owned by it) and one Request (institution-request, pending,
\* naming the new Institution), and changes no existing row.
C12_RegistroAtomico ==
    /\ []RegistroCompleto
    /\ [][\A e \in Emails :
             (ultima'.op = "registro" /\ ultima'.res = "ok" /\ RegistroBanco(e, "secreto"))
             => LET us == DOMAIN usuarios' \ DOMAIN usuarios
                    bs == DOMAIN bancos' \ DOMAIN bancos
                    ss == DOMAIN solicitudes' \ DOMAIN solicitudes
                IN /\ Cardinality(us) = 1 /\ Cardinality(bs) = 1 /\ Cardinality(ss) = 1
                   /\ \A u \in us : usuarios'[u].tipo = "banco" /\ usuarios'[u].activo
                   /\ \A b \in bs : ~bancos'[b].aprobado /\ bancos'[b].usuario_id \in us
                   /\ \A k \in ss : /\ solicitudes'[k].tipo_solicitud = "banco"
                                     /\ solicitudes'[k].estado = "pendiente"
                                     /\ solicitudes'[k].referencia_id \in bs
                   /\ \A u \in DOMAIN usuarios : u \in DOMAIN usuarios' /\ usuarios'[u] = usuarios[u]
                   /\ \A b \in DOMAIN bancos : b \in DOMAIN bancos' /\ bancos'[b] = bancos[b]
                   /\ \A k \in DOMAIN solicitudes :
                         k \in DOMAIN solicitudes' /\ solicitudes'[k] = solicitudes[k]
                   /\ UNCHANGED tarjetas]_vars

C12_Testigo ==
    /\ ultima.op = "registro" /\ ultima.res = "ok"
    /\ Cardinality(DOMAIN bancos) = 2
    /\ \E b \in DOMAIN bancos : bancos[b].aprobado

\* C13: an edit or a delete by an institution with the id of a Card that another
\* institution owns changes no table, and answers exactly as it answers for an
\* id that no Card has.
C13_TarjetaAjenaComoInexistente ==
    [][ultima'.op \in {"editar", "eliminar"} =>
          \A u \in Bancarios, i \in DOMAIN tarjetas :
             (BancosDe(u) # {} /\ tarjetas[i].banco_id \notin BancosDe(u))
             => /\ \A x \in TarjetaEntradas :
                      (ultima'.op = "editar" /\ BancoEditarTarjeta(u, i, x[1], x[2]))
                      => /\ UNCHANGED db
                         /\ BancoEditarTarjeta(u, NuevoId(tarjetas), x[1], x[2])
                /\ (ultima'.op = "eliminar" /\ BancoEliminarTarjeta(u, i))
                      => /\ UNCHANGED db
                         /\ BancoEliminarTarjeta(u, NuevoId(tarjetas))]_vars

C13_Testigo ==
    /\ ultima.op = "editar" /\ ultima.res = "error"
    /\ ~HayFilaLibre
    /\ Cardinality(DOMAIN bancos) = 2
    /\ \E t \in DOMAIN tarjetas : tarjetas[t].aprobada

\* a session that is not an administrator's / not an institution's
NoEsAdmin(u) == u = NoSession \/ usuarios[u].tipo = "banco"
NoEsBanco(u) == u = NoSession \/ usuarios[u].tipo = "admin"

\* C14: an approve or reject by a session that is unauthenticated or an
\* institution's changes no table; a submit, edit or delete of a card by a
\* session that is unauthenticated or the administrator's changes no table; and
\* the status of a Request changes only in a step that an administrator's
\* session performs.  (Stated over the steps that change a table: none of them
\* is a step of a call that comes with the wrong session.)
C14_PuertaDeRol ==
    [][\/ UNCHANGED db
       \/ /\ \A u \in Cookies :
                /\ (ultima'.op \in {"aprobar", "rechazar"} /\ NoEsAdmin(u))
                      => \A k \in IdsSolicitud :
                            /\ ~AprobarSolicitud(u, k)
                            /\ \A c \in Comentarios : ~RechazarSolicitud(u, k, c)
                /\ (ultima'.op \in {"nueva", "editar", "eliminar"} /\ NoEsBanco(u))
                      => /\ \A x \in TarjetaEntradas : ~BancoNuevaTarjeta(u, x[1], x[2])
                         /\ \A i \in IdsTarjeta :
                               /\ ~BancoEliminarTarjeta(u, i)
                               /\ \A x \in TarjetaEntradas :
                                     ~BancoEditarTarjeta(u, i, x[1], x[2])
          /\ (\E k \in DOMAIN solicitudes \cap DOMAIN solicitudes' :
                  solicitudes'[k].estado # solicitudes[k].estado)
                => \E u \in Admins, k \in DOMAIN solicitudes :
                      \/ AprobarSolicitud(u, k)
                      \/ \E c \in Comentarios : RechazarSolicitud(u, k, c)]_vars

C14_Testigo ==
    /\ ultima.op = "aprobar" /\ ultima.res = "forbidden"
    /\ \E k \in DOMAIN solicitudes :
          solicitudes[k].estado = "pendiente" /\ solicitudes[k].tipo_solicitud = "tarjeta"

\* C15: the administrator's listing returns exactly the Requests that are
\* pending, each once (none approved or rejected, none pending left out, also
\* those whose Card has been deleted), from the newest submission to the oldest.
C15_ListaPendientes ==
    (ultima.op = "solicitudes" /\ ultima.res = "ok") =>
        LET q == ultima.lista
        IN /\ {q[n] : n \in DOMAIN q} =
                 {k \in DOMAIN solicitudes : solicitudes[k].estado = "pendiente"}
           /\ \A a, b \in DOMAIN q : a # b => q[a] # q[b]
           /\ \A a, b \in DOMAIN q :
                 a < b => solicitudes[q[a]].fecha_solicitud >= solicitudes[q[b]].fecha_solicitud

C15_Testigo ==
    /\ ultima.op = "solicitudes" /\ ultima.res = "ok"
    /\ Len(ultima.lista) = 2
    /\ solicitudes[ultima.lista[1]].fecha_solicitud > solicitudes[ultima.lista[2]].fecha_solicitud
    /\ \E n \in DOMAIN ultima.lista :
          /\ solicitudes[ultima.lista[n]].tipo_solicitud = "tarjeta"
          /\ solicitudes[ultima.lista[n]].referencia_id \notin DOMAIN tarjetas
    /\ \E k \in DOMAIN solicitudes : solicitudes[k].estado # "pendiente"

\* C16: deleting an Institution removes it, every Card it owns, every Request
\* it owns and every card-request that names one of its Cards: afterwards no
\* Card row and no Request row refers to it or to one of its deleted Cards.
C16_EliminarBancoEnCascada ==
    [][\A b \in DOMAIN bancos :
          (ultima'.op = "eliminar_banco" /\ EliminarBanco(b))
          => LET suyas == {t \in DOMAIN tarjetas : tarjetas[t].banco_id = b}
             IN /\ b \notin DOMAIN bancos'
                /\ \A t \in DOMAIN tarjetas' : tarjetas'[t].banco_id # b
                /\ \A k \in DOMAIN solicitudes' :
                      /\ solicitudes'[k].banco_id # b
                      /\ ~(/\ solicitudes'[k].tipo_solicitud = "tarjeta"
                           /\ solicitudes'[k].referencia_id \in suyas)]_vars

\* the pending card-requests that name a card
PendientesDe(sols, t) ==
    {k \in DOMAIN sols : /\ sols[k].tipo_solicitud = "tarjeta"
                         /\ sols[k].referencia_id = t
                         /\ sols[k].estado = "pendiente"}

\* C17: a successful edit adds exactly one Request (card-request, pending,
\* naming the edited Card) and leaves every existing Request as it was: the
\* pending Requests of the Card stay pending, none is reused or cancelled, and
\* the Card has one more pending Request than before.
C17_EditarAcumulaSolicitudes ==
    [][\A u \in Bancarios, x \in TarjetaEntradas :
          (/\ ultima'.op = "editar" /\ ultima'.res = "ok"
           /\ BancoEditarTarjeta(u, ultima'.id, x[1], x[2]))
          => LET t == ultima'.id
                 nuevas == DOMAIN solicitudes' \ DOMAIN solicitudes
             IN /\ Cardinality(nuevas) = 1
                /\ \A k \in nuevas :
                      /\ solicitudes'[k].tipo_solicitud = "tarjeta"
                      /\ solicitudes'[k].estado = "pendiente"
                      /\ solicitudes'[k].referencia_id = t
                /\ \A k \in DOMAIN solicitudes :
                      k \in DOMAIN solicitudes' /\ solicitudes'[k] = solicitudes[k]
                /\ Cardinality(PendientesDe(solicitudes', t)) =
                      Cardinality(PendientesDe(solicitudes, t)) + 1]_vars

C17_Testigo ==
    /\ ultima.op = "editar" /\ ultima.res = "ok"
    /\ Cardinality(PendientesDe(solicitudes, ultima.id)) = 2

\* the Card that a card-request was submitted for no longer exists: no row has
\* its id, or the row that has it was created after the request was submitted
TarjetaEliminada(s) ==
    \/ s.referencia_id \notin DOMAIN tarjetas
    \/ tarjetas[s.referencia_id].fecha_creacion > s.fecha_solicitud

\* C18: an approve, committed by the store, of a pending card-request whose
\* Card has been deleted marks the Request approved and changes no approved
\* flag of any Card or Institution.
C18_AprobarTarjetaEliminada ==
    [][\A u \in Admins :
          (/\ ultima'.op = "aprobar" /\ ultima'.res = "ok"
           /\ ultima'.id \in DOMAIN solicitudes
           /\ solicitudes[ultima'.id].tipo_solicitud = "tarjeta"
           /\ solicitudes[ultima'.id].estado = "pendiente"
           /\ TarjetaEliminada(solicitudes[ultima'.id])
           /\ AprobarSolicitud(u, ultima'.id))
          => /\ solicitudes'[ultima'.id].estado = "aprobada"
             /\ DOMAIN tarjetas' = DOMAIN tarjetas /\ DOMAIN bancos' = DOMAIN bancos
             /\ \A t \in DOMAIN tarjetas : tarjetas'[t].aprobada = tarjetas[t].aprobada
             /\ \A b \in DOMAIN bancos : bancos'[b].aprobado = bancos[b].aprobado]_vars

\* after a failed approve or reject, the same operation on a pending Request
\* can be done again and then has its normal effect
ReintentoPosible ==
    \A k \in DOMAIN solicitudes :
        solicitudes[k].estado = "pendiente" =>
            /\ ENABLED (/\ AprobarSolicitud(AdminId, k)
                        /\ ultima'.res = "ok"
                        /\ solicitudes'[k].estado = "aprobada"
                        /\ bancos' = BancosTrasAprobar(solicitudes[k])
                        /\ tarjetas' = TarjetasTrasAprobar(solicitudes[k]))
            /\ \A c \in Comentarios :
                  ENABLED (/\ RechazarSolicitud(AdminId, k, c)
                           /\ ultima'.res = "ok"
                           /\ solicitudes'[k].estado = "rechazada")

\* C19: approve and reject are all-or-nothing: when the commit of an approve or
\* reject of a pending Request fails, every table is as before (the Request is
\* still pending and its subject's approved flag has its prior value), and a
\* retry of the operation can then succeed with the normal effect.
C19_TodoONada ==
    /\ [][\A u \in Admins, k \in DOMAIN solicitudes :
             (/\ ultima'.op \in {"aprobar", "rechazar"} /\ ultima'.res = "error"
              /\ solicitudes[k].estado = "pendiente"
              /\ \/ AprobarSolicitud(u, k)
                 \/ \E c \in Comentarios : RechazarSolicitud(u, k, c))
             => /\ UNCHANGED db
                /\ solicitudes'[k].estado = "pendiente"]_vars
    /\ []((ultima.op \in {"aprobar", "rechazar"} /\ ultima.res = "error") => ReintentoPosible)

\* every id of IdsSolicitud names a row, so the failure was the commit's
C19_Testigo ==
    /\ ultima.op = "aprobar" /\ ultima.res = "error"
    /\ DOMAIN solicitudes = IdsSolicitud
    /\ \E k \in DOMAIN solicitudes :
          /\ solicitudes[k].estado = "pendiente"
          /\ solicitudes[k].tipo_solicitud = "tarjeta"
          /\ solicitudes[k].referencia_id \in DOMAIN tarjetas

\* C20: approving a Request never sets the approved flag of a Card other than
\* the Card the Request was submitted for: a Card that an approve makes
\* approved is named by the Request and existed when the Request was submitted
\* (also when a new Card has been handed the id of a deleted one).
C20_AprobarNoAlcanzaOtraTarjeta ==
    [][\A u \in Admins :
          (/\ ultima'.op = "aprobar" /\ ultima'.res = "ok"
           /\ ultima'.id \in DOMAIN solicitudes
           /\ AprobarSolicitud(u, ultima'.id))
          => \A t \in DOMAIN tarjetas \cap DOMAIN tarjetas' :
                (tarjetas'[t].aprobada /\ ~tarjetas[t].aprobada)
                => LET s == solicitudes[ultima'.id]
                   IN /\ s.tipo_solicitud = "tarjeta"
                      /\ s.referencia_id = t
                      /\ s.fecha_solicitud >= tarjetas[t].fecha_creacion]_vars

\* C21: an Institution's approved flag is monotonic: no step of a register,
\* submit, edit, delete, approve or reject takes an approved Institution away
\* or sets its flag back to false; in particular a reject of the Institution's
\* own Request leaves it approved.
C21_BancoAprobadoMonotono ==
    [][\A b \in DOMAIN bancos :
          bancos[b].aprobado => (b \in DOMAIN bancos' /\ bancos'[b].aprobado)]_vars

C21_Testigo ==
    /\ ultima.op = "rechazar" /\ ultima.res = "ok" /\ ~ultima.previa
    /\ solicitudes[ultima.id].tipo_solicitud = "banco"
    /\ bancos[solicitudes[ultima.id].referencia_id].aprobado
    /\ \E t \in DOMAIN tarjetas : tarjetas[t].banco_id = solicitudes[ultima.id].referencia_id

\* the Institution that owns a card exists and is approved
BancoDeTarjetaAprobado(t) ==
    /\ tarjetas[t].banco_id \in DOMAIN bancos
    /\ bancos[tarjetas[t].banco_id].aprobado

\* C22: in every state the workflow reaches, every Card belongs to an
\* Institution whose approved flag is true, and every Card that the catalog or
\* the search returns does.
C22_TarjetasDeBancosAprobados ==
    /\ \A t \in DOMAIN tarjetas : BancoDeTarjetaAprobado(t)
    /\ ultima.op \in {"buscar", "tarjetas"} =>
          \A t \in ultima.resultados : t \in DOMAIN tarjetas /\ BancoDeTarjetaAprobado(t)

C22_Testigo ==
    /\ ultima.op = "tarjetas" /\ ultima.resultados # {}
    /\ \E b \in DOMAIN bancos : ~bancos[b].aprobado
    /\ \E k \in DOMAIN solicitudes :
          /\ solicitudes[k].tipo_solicitud = "banco" /\ solicitudes[k].estado = "rechazada"
          /\ bancos[solicitudes[k].referencia_id].aprobado

\* the approved Cards and the approved Institutions of a state of the tables
Aprobadas(ts) == {t \in DOMAIN ts : ts[t].aprobada}
Aprobados(bs) == {b \in DOMAIN bs : bs[b].aprobado}

\* C23: the approved flag of a Card or of an Institution goes from false to
\* true only in an administrator's approve: every step that makes a Card or an
\* Institution approved (one that was not, or a new one) is an approve step, and
\* a step of a register, submit, edit, delete or public query adds nothing to
\* the approved Cards and Institutions.
C23_SoloAprobarAprueba ==
    [][\/ /\ Aprobadas(tarjetas') \subseteq Aprobadas(tarjetas)
          /\ Aprobados(bancos') \subseteq Aprobados(bancos)
       \/ /\ ultima'.op = "aprobar"
          /\ \E u \in Admins, k \in DOMAIN solicitudes : AprobarSolicitud(u, k)]_vars

C23_Testigo ==
    /\ ultima.op = "aprobar" /\ ultima.res = "ok" /\ ultima.previa
    /\ solicitudes[ultima.id].tipo_solicitud = "tarjeta"
    /\ solicitudes[ultima.id].referencia_id \in Aprobadas(tarjetas)
    /\ Cardinality(Aprobadas(tarjetas)) = 2

\* C24: no two Identities ever share an email, however concurrent
\* registrations interleave: of two registrations with the same email that both
\* passed the lookup before either committed at most one commits, and the other
\* is rolled back completely (it leaves no Identity, Institution or Request).
C24_EmailUnicoConcurrente ==
    /\ [](\A u, v \in DOMAIN usuarios : usuarios[u].email = usuarios[v].email => u = v)
    /\ [][\A p \in Procesos :
             (/\ registros[p] # Libre
              /\ \E u \in DOMAIN usuarios : usuarios[u].email = sanitizar_input(registros[p])
              /\ RegistroConfirma(p, "secreto"))
             => /\ UNCHANGED db
                /\ ultima'.res = "error"]_vars

\* two registrations with the same email passed the lookup, one has committed,
\* the other has not yet written
C24_Testigo ==
    /\ ultima.op = "registro" /\ ultima.res = "ok"
    /\ \E p \in Procesos :
          /\ registros[p] # Libre
          /\ \E u \in DOMAIN usuarios :
                /\ usuarios[u].tipo = "banco"
                /\ usuarios[u].email = registros[p]

\* a text holds a complete script element: "<script", later the '>' that ends
\* the tag, later "</script>", in any case and over any number of lines
ContieneScript(s) ==
    \E i \in 1..Len(s) :
        /\ i + 1 <= Len(s)
        /\ Lower(s[i]) = "<scr" /\ Lower(s[i + 1]) = "ipt"
        /\ \E j \in (i + 2)..Len(s) :
              /\ CierraTag(s[j])
              /\ \E k \in (j + 1)..Len(s) : Lower(s[k]) = "</script>"

\* C25: the comment stored on a rejected Request holds no complete
\* <script ...>...</script> element, whatever comment the administrator posted
\* (also one that nests a script element in another's tag text, or whose script
\* body spans several lines).
C25_ComentarioSinScript ==
    \A k \in DOMAIN solicitudes :
        solicitudes[k].estado = "rechazada" => ~ContieneScript(solicitudes[k].comentario_admin)

====
